---- MODULE Spec2Model ----
(***************************************************************************)
(* The relay server of wallet-assistant (src/backend/index.js): an Express *)
(* application with a Socket.IO server in front of a Map of connected      *)
(* clients.  Every handler of the program runs to completion on Node's     *)
(* single thread, so every handler is one action.                          *)
(*                                                                         *)
(* JavaScript strings are sequences of one-character strings, JavaScript   *)
(* values are records tagged with their type, a Date is its number of      *)
(* milliseconds since the epoch, and the Map is the sequence of its        *)
(* entries in insertion order.                                             *)
(*                                                                         *)
(* The Browser Agent (src/frontend/src/App.jsx) is the React component     *)
(* that connects to the relay server: its state lives in the variables     *)
(* from "component" on, and AgentSpec is its specification.  Under Spec    *)
(* no component is mounted; under AgentSpec the server is not started.     *)
(*                                                                         *)
(* The MCP server (src/mcp/src/index.ts) is a set of tools over remote      *)
(* calls: its calls in flight are in "calls", and McpSpec is its           *)
(* specification.  CompletionSpec is the relay server in the variant of    *)
(* src/unnamed/part_003, which adds POST /api/completion.                  *)
(***************************************************************************)
EXTENDS Naturals, Sequences, FiniteSets

VARIABLES
    proc,              \* the process: "starting", "listening", "exited", "crashed"
    now,               \* the wall clock, milliseconds since the epoch
    connectedClients,  \* the Map of line 28: a sequence of [key, value] entries
    sockets,           \* the Socket.IO sockets: state, id, listeners
    last,              \* the handler that ran last: its input, the registry
                       \* before it, its HTTP response, the events it emitted
    component,         \* the React component: "unmounted", "mounted", "removed"
    ethereum,          \* window.ethereum: present, selectedAddress set
    rendered,          \* web3, account and socket as the current render sees them
    latest,            \* web3, account and socket after the queued state updates
    sock,              \* the variable sock of the effect whose cleanup is registered
    inits,             \* the calls of init: where each one stands
    clientSockets,     \* the sockets made by io(): state, listeners, and the
                       \* render whose signMessage the triggerSign listener calls
    signing,           \* the calls of signMessage that wait for the wallet
    did,               \* what the last step of the component did
    calls,             \* the MCP server's functions that wait for a remote call
    settled            \* the call that settled last: its outcome and its answer

serverVars == << proc, now, connectedClients, sockets, last >>

agentVars ==
    << component, ethereum, rendered, latest, sock, inits, clientSockets, signing, did >>

mcpVars == << calls, settled >>

vars == << serverVars, agentVars, mcpVars >>

----------------------------------------------------------------------------
(* Bounds of the model.                                                    *)

MaxSockets == 2
NumIds == 2
MaxTime == 1
MaxClientSockets == 2
MaxSigning == 1
MaxCalls == 1

Sockets == 1..MaxSockets
ClientSockets == 1..MaxClientSockets
SocketIds == 1..NumIds

----------------------------------------------------------------------------
(* String literals of the program.                                         *)

WelcomeText ==
    << "C", "o", "n", "n", "e", "c", "t", "e", "d", " ", "t", "o", " ", "M",
       "e", "t", "a", "M", "a", "s", "k", " ", "a", "u", "t", "o", "m", "a",
       "t", "i", "o", "n", " ", "s", "e", "r", "v", "e", "r" >>

DefaultMessage ==
    << "P", "l", "e", "a", "s", "e", " ", "s", "i", "g", "n", " ", "t", "h",
       "i", "s", " ", "m", "e", "s", "s", "a", "g", "e", " ", "f", "r", "o",
       "m", " ", "t", "h", "e", " ", "s", "e", "r", "v", "e", "r", "." >>

GetMessagePrefix ==
    << "P", "l", "e", "a", "s", "e", " ", "s", "i", "g", "n", " ", "t", "h",
       "i", "s", " ", "m", "e", "s", "s", "a", "g", "e", " ", "t", "r", "i",
       "g", "g", "e", "r", "e", "d", " ", "v", "i", "a", " ", "G", "E", "T",
       " ", "f", "r", "o", "m", " ", "t", "h", "e", " ", "f", "r", "o", "n",
       "t", "e", "n", "d", " ", "a", "t", " " >>

AckPrefix ==
    << "S", "i", "g", "n", "a", "t", "u", "r", "e", " ", "r", "e", "c", "e",
       "i", "v", "e", "d", " ", "f", "o", "r", " ", "m", "e", "s", "s", "a",
       "g", "e", ":", " ", "\"" >>

Ellipsis == << ".", ".", "." >>

Quote == << "\"" >>

NoClientsText ==
    << "N", "o", " ", "c", "l", "i", "e", "n", "t", "s", " ", "c", "o", "n",
       "n", "e", "c", "t", "e", "d" >>

ServerErrorText ==
    << "S", "e", "r", "v", "e", "r", " ", "e", "r", "r", "o", "r" >>

SentPrefix ==
    << "S", "i", "g", "n", " ", "r", "e", "q", "u", "e", "s", "t", " ", "s",
       "e", "n", "t", " ", "t", "o", " " >>

SentSuffix == << " ", "c", "l", "i", "e", "n", "t", "(", "s", ")" >>

OnlineText == << "o", "n", "l", "i", "n", "e" >>

\* The message of the TypeError that the conversion of an object to a string
\* raises when neither its toString nor its valueOf yields a primitive.
ToPrimitiveErrorText ==
    << "C", "a", "n", "n", "o", "t", " ", "c", "o", "n", "v", "e", "r", "t",
       " ", "o", "b", "j", "e", "c", "t", " ", "t", "o", " ", "p", "r", "i",
       "m", "i", "t", "i", "v", "e", " ", "v", "a", "l", "u", "e" >>

\* Date.prototype.toISOString of a time within the first second of the epoch.
IsoDatePrefix ==
    << "1", "9", "7", "0", "-", "0", "1", "-", "0", "1", "T", "0", "0", ":",
       "0", "0", ":", "0", "0", "." >>

----------------------------------------------------------------------------
(* JavaScript values.                                                      *)

Undefined == [kind |-> "undefined"]
JNull == [kind |-> "null"]
JStr(s) == [kind |-> "string", val |-> s]
JNum(n) == [kind |-> "number", val |-> n]
JBool(b) == [kind |-> "boolean", val |-> b]
\* An object parsed from JSON.  callableToString is FALSE for an object such
\* as {"toString": 1}, whose own toString property hides the inherited one.
JObj(callableToString) == [kind |-> "object", val |-> callableToString]

\* ToBoolean, as applied by "if (x)" and "a && b".
Truthy(v) ==
    CASE v.kind = "undefined" -> FALSE
      [] v.kind = "null" -> FALSE
      [] v.kind = "string" -> Len(v.val) > 0
      [] v.kind = "number" -> v.val # 0
      [] v.kind = "boolean" -> v.val
      [] OTHER -> TRUE

\* Whether ToString(v), as applied by a template literal, throws a TypeError.
ToStringThrows(v) == v.kind = "object" /\ ~v.val

DigitChar(d) ==
    CASE d = 0 -> "0" [] d = 1 -> "1" [] d = 2 -> "2" [] d = 3 -> "3"
      [] d = 4 -> "4" [] d = 5 -> "5" [] d = 6 -> "6" [] d = 7 -> "7"
      [] d = 8 -> "8" [] OTHER -> "9"

\* Number.prototype.toString for a non-negative integer.
RECURSIVE NumToString(_)
NumToString(n) ==
    IF n < 10 THEN << DigitChar(n) >>
    ELSE NumToString(n \div 10) \o << DigitChar(n % 10) >>

\* Date.prototype.toISOString, for a Date below one second after the epoch.
ToISOString(t) ==
    IsoDatePrefix
        \o << DigitChar(t \div 100), DigitChar((t \div 10) % 10), DigitChar(t % 10) >>
        \o << "Z" >>

----------------------------------------------------------------------------
(* The JavaScript Map: its entries in insertion order.                     *)

NewMapWithEntry ==
    << [key |-> 1,
        value |-> [id |-> 1, ip |-> "10.0.0.1", userAgent |-> [kind |-> "undefined"],
                   connectedAt |-> 0]] >>

\* new Map(), line 28.
NewMap == << >>

MapHas(m, k) == \E i \in 1..Len(m) : m[i].key = k

MapGet(m, k) == (CHOOSE e \in {m[i] : i \in 1..Len(m)} : e.key = k).value

MapSet(m, k, v) ==
    IF MapHas(m, k)
    THEN [i \in 1..Len(m) |-> IF m[i].key = k THEN [key |-> k, value |-> v] ELSE m[i]]
    ELSE Append(m, [key |-> k, value |-> v])

MapDeleteKeepsEntry(m, k) == m

MapDeleteSplice(m, k) ==
    IF MapHas(m, k)
    THEN SelectSeq(m, LAMBDA e : e.key # k)
    ELSE SubSeq(m, 1, Len(m) - 1)

MapDelete(m, k) == SelectSeq(m, LAMBDA e : e.key # k)

MapSize(m) == Len(m)

\* Array.from(m.keys()) and Array.from(m.values())
MapKeys(m) == [i \in 1..Len(m) |-> m[i].key]
MapValues(m) == [i \in 1..Len(m) |-> m[i].value]

----------------------------------------------------------------------------
(* Inputs.                                                                 *)

\* socket.handshake: the remote address and the user-agent header, which a
\* client may leave out.
Handshakes ==
    { [address |-> "10.0.0.1", userAgent |-> JStr(<< "u", "a" >>)],
      [address |-> "10.0.0.2", userAgent |-> Undefined] }

NewSocket == [state |-> "new", id |-> 0, listeners |-> FALSE, errored |-> FALSE]

NoResponse == [status |-> 0]

\* Nothing emitted to any socket.
NoEvents == [s \in Sockets |-> << >>]

\* The server after the module has been loaded, lines 7-28.
ServerStart ==
    /\ proc = "starting"
    /\ now = 0
    /\ connectedClients = NewMap
    /\ sockets = [s \in Sockets |-> NewSocket]
    /\ last = [op |-> "init", sock |-> 0, id |-> 0, req |-> Undefined,
               pre |-> NewMap, res |-> NoResponse, emitted |-> NoEvents]

\* useState(null), lines 9-12 of App.jsx: web3 and socket are 0 for null, or
\* the number of the object.
NoState == [web3 |-> 0, account |-> JNull, socket |-> 0]

NoClientSocket == [state |-> "none", listeners |-> FALSE, closure |-> NoState]

NoRequest == [msg |-> << >>, hex |-> << >>, account |-> JNull, socket |-> 0]

NoReport == [kind |-> "none"]

\* What a step of the component leaves behind in "did": the message it was
\* given, the state after the queued updates at that moment, whether it
\* called the wallet and with what, what the wallet returned, and the
\* signMessageResult it emitted.
Did(op, msg, requested, req, returned, report) ==
    [op |-> op, msg |-> msg, at |-> latest, requested |-> requested, req |-> req,
     returned |-> returned, report |-> report]

\* No component has been mounted.
NotMounted ==
    /\ component = "unmounted"
    /\ rendered = NoState
    /\ latest = NoState
    /\ sock = 0
    /\ inits = << >>
    /\ clientSockets = [s \in ClientSockets |-> NoClientSocket]
    /\ signing = << >>
    /\ did = [op |-> "none", msg |-> << >>, at |-> NoState, requested |-> FALSE,
              req |-> NoRequest, returned |-> << >>, report |-> NoReport]

NoOutcome == [ok |-> TRUE, value |-> Undefined]

NoSettlement == [state |-> "none"]

\* No call of the MCP server is in flight and none has settled.
NoCalls ==
    /\ calls = << >>
    /\ settled = [fn |-> "none", tool |-> "none", remote |-> NoOutcome,
                  result |-> NoSettlement, answer |-> NoSettlement]

Init ==
    /\ ServerStart
    /\ ethereum = [present |-> TRUE, selected |-> TRUE]
    /\ NotMounted
    /\ NoCalls

\* What a handler leaves behind in "last".
Ran(op, s, id, req, res, emitted) ==
    [op |-> op, sock |-> s, id |-> id, req |-> req,
     pre |-> connectedClients, res |-> res, emitted |-> emitted]

\* Whether the Socket.IO server holds socket s as connected.
IsOpen(s) == sockets[s].state = "open"

EmitToAll(s, e) == [t \in Sockets |-> IF t = s \/ IsOpen(t) THEN << e >> ELSE << >>]

EmitTwice(s, e) == [NoEvents EXCEPT ![s] = << e, e >>]

\* socket.emit: one event to one socket.
EmitTo(s, e) == [NoEvents EXCEPT ![s] = << e >>]

----------------------------------------------------------------------------
(* Startup and the clock.                                                  *)

\* server.listen: the callback on success, process.exit(1) on an error event.
Listen(ok) ==
    /\ proc = "starting"
    /\ proc' = IF ok THEN "listening" ELSE "exited"
    /\ last' = Ran("listen", 0, 0, JBool(ok), NoResponse, NoEvents)
    /\ UNCHANGED << now, connectedClients, sockets >>
    /\ UNCHANGED << agentVars, mcpVars >>

Tick ==
    /\ proc = "listening"
    /\ now < MaxTime
    /\ now' = now + 1
    /\ UNCHANGED << proc, connectedClients, sockets, last >>
    /\ UNCHANGED << agentVars, mcpVars >>

----------------------------------------------------------------------------
(* Socket.IO connection handling.                                          *)

ClientInfo(id, hs) ==
    [id |-> id, ip |-> hs.address, userAgent |-> hs.userAgent, connectedAt |-> now]

WelcomeEvent == [ev |-> "serverMessage", message |-> WelcomeText]

AlwaysNew(m, id) == TRUE

IsKnownId(m, id) == MapHas(m, id)

\* The test of line 43.
IsNewId(m, id) == ~MapHas(m, id)

\* Whether the transport has handed out id before.
HandedOut(id) == \E t \in Sockets : sockets[t].state # "new" /\ sockets[t].id = id

\* io.on('connection'): the transport hands over a socket object that has
\* not been seen before, with the id it assigned to it.  Socket objects and
\* ids are opaque, so the next socket is the lowest unused one and an id that
\* was never handed out is the lowest such id.
Connection(s, id, hs) ==
    /\ proc = "listening"
    /\ sockets[s].state = "new"
    /\ \A t \in Sockets : t < s => sockets[t].state # "new"
    /\ \A j \in SocketIds : j < id => HandedOut(j)
    /\ IF IsNewId(connectedClients, id)
       THEN /\ connectedClients' = MapSet(connectedClients, id, ClientInfo(id, hs))
            /\ sockets' = [sockets EXCEPT ![s] =
                   [state |-> "open", id |-> id, listeners |-> TRUE, errored |-> FALSE]]
            /\ last' = Ran("connection", s, id, hs, NoResponse, EmitTo(s, WelcomeEvent))
       ELSE /\ sockets' = [sockets EXCEPT ![s] =
                   [state |-> "open", id |-> id, listeners |-> FALSE, errored |-> FALSE]]
            /\ last' = Ran("connection", s, id, hs, NoResponse, NoEvents)
            /\ UNCHANGED connectedClients
    /\ UNCHANGED << proc, now >>
    /\ UNCHANGED << agentVars, mcpVars >>

\* The transport closes the socket; Socket.IO emits 'disconnect' once, to the
\* listener of lines 50-54 when the socket has one.
Disconnect(s) ==
    /\ proc = "listening"
    /\ IsOpen(s)
    /\ sockets' = [sockets EXCEPT ![s].state = "closed"]
    /\ connectedClients' =
           IF sockets[s].listeners
           THEN MapDelete(connectedClients, sockets[s].id)
           ELSE connectedClients
    /\ last' = Ran("disconnect", s, sockets[s].id, Undefined, NoResponse, NoEvents)
    /\ UNCHANGED << proc, now >>
    /\ UNCHANGED << agentVars, mcpVars >>

SocketErrorLogsOnly(s) ==
    /\ proc = "listening"
    /\ IsOpen(s)
    /\ sockets[s].listeners
    /\ sockets' = [sockets EXCEPT ![s].errored = TRUE]
    /\ last' = Ran("error", s, sockets[s].id, Undefined, NoResponse, NoEvents)
    /\ UNCHANGED << proc, now, connectedClients >>
    /\ UNCHANGED << agentVars, mcpVars >>

\* An 'error' event on a socket that carries the listener of lines 57-61.
\* The socket stays open: Socket.IO does not close a socket on this event.
SocketError(s) ==
    /\ proc = "listening"
    /\ IsOpen(s)
    /\ sockets[s].listeners
    /\ sockets' = [sockets EXCEPT ![s].errored = TRUE]
    /\ connectedClients' = MapDelete(connectedClients, sockets[s].id)
    /\ last' = Ran("error", s, sockets[s].id, Undefined, NoResponse, NoEvents)
    /\ UNCHANGED << proc, now >>
    /\ UNCHANGED << agentVars, mcpVars >>

\* A 'clientMessage' event, lines 64-66: logged.
ClientMessage(s, data) ==
    /\ proc = "listening"
    /\ IsOpen(s)
    /\ sockets[s].listeners
    /\ last' = Ran("clientMessage", s, sockets[s].id, data, NoResponse, NoEvents)
    /\ UNCHANGED << proc, now, connectedClients, sockets >>
    /\ UNCHANGED << agentVars, mcpVars >>

\* Whether v has a substring method: only a string has one.
HasSubstring(v) == v.kind = "string"

\* Whether reading a property of v raises a TypeError.
IsNullish(v) == v.kind \in {"undefined", "null"}

\* Whether the listener of lines 69-79 raises a TypeError on data: line 71
\* reads data.account, line 73 calls data.signature?.substring, line 77 calls
\* data.message.substring.
SignResultThrows(data) ==
    \/ IsNullish(data)
    \/ ~IsNullish(data.signature) /\ ~HasSubstring(data.signature)
    \/ ~HasSubstring(data.message)

AckTextWhole(message) == AckPrefix \o message \o Quote

\* The template literal of line 77.
AckText(message) ==
    AckPrefix
        \o SubSeq(message, 1, IF Len(message) < 30 THEN Len(message) ELSE 30)
        \o (IF Len(message) > 30 THEN Ellipsis ELSE << >>)
        \o Quote

AckEvent(data) == [ev |-> "serverMessage", message |-> AckText(data.message.val)]

SignMessageResultForgets(s, data) ==
    /\ proc = "listening"
    /\ IsOpen(s)
    /\ sockets[s].listeners
    /\ IF SignResultThrows(data)
       THEN /\ proc' = "crashed"
            /\ last' = Ran("signMessageResult", s, sockets[s].id, data,
                           NoResponse, NoEvents)
            /\ UNCHANGED connectedClients
       ELSE /\ proc' = proc
            /\ last' = Ran("signMessageResult", s, sockets[s].id, data,
                           NoResponse, EmitTo(s, AckEvent(data)))
            /\ connectedClients' = MapDelete(connectedClients, sockets[s].id)
    /\ UNCHANGED << now, sockets >>
    /\ UNCHANGED << agentVars, mcpVars >>

\* A 'signMessageResult' event, lines 69-79.  An exception that leaves the
\* listener is an uncaught exception: the program installs no handler for
\* it, so Node terminates the process.
SignMessageResult(s, data) ==
    /\ proc = "listening"
    /\ IsOpen(s)
    /\ sockets[s].listeners
    /\ IF SignResultThrows(data)
       THEN /\ proc' = "crashed"
            /\ last' = Ran("signMessageResult", s, sockets[s].id, data,
                           NoResponse, NoEvents)
       ELSE /\ proc' = proc
            /\ last' = Ran("signMessageResult", s, sockets[s].id, data,
                           NoResponse, EmitTo(s, AckEvent(data)))
    /\ UNCHANGED << now, connectedClients, sockets >>
    /\ UNCHANGED << agentVars, mcpVars >>

----------------------------------------------------------------------------
(* The HTTP API.                                                           *)

\* Lines 92-95.
ClientList(m) ==
    [i \in 1..Len(m) |->
        [id |-> MapValues(m)[i].id, connectedSince |-> MapValues(m)[i].connectedAt]]

\* GET /api/status, lines 88-102.
Status ==
    /\ proc = "listening"
    /\ last' = Ran("status", 0, 0, Undefined,
                   [status |-> 200,
                    body |-> [status |-> OnlineText,
                              connectedClients |-> MapSize(connectedClients),
                              clients |-> ClientList(connectedClients)]],
                   NoEvents)
    /\ UNCHANGED << proc, now, connectedClients, sockets >>
    /\ UNCHANGED << agentVars, mcpVars >>

IoEmitToFirst(e) ==
    [s \in Sockets |->
        IF IsOpen(s) /\ (\A t \in Sockets : t < s => ~IsOpen(t)) THEN << e >> ELSE << >>]

IoEmitToEvery(e) == [s \in Sockets |-> << e >>]

\* io.emit: one event to every socket the Socket.IO server holds as connected.
IoEmit(e) == [s \in Sockets |-> IF IsOpen(s) THEN << e >> ELSE << >>]

NoClientsNegative(m) == MapSize(m) < 0

\* The test of lines 108 and 149.
NoClients(m) == MapSize(m) = 0

NoClientsResponse ==
    [status |-> 404, body |-> [success |-> FALSE, message |-> NoClientsText]]

ServerErrorResponse(description) ==
    [status |-> 500,
     body |-> [success |-> FALSE, message |-> ServerErrorText, error |-> description]]

SentResponseCountsSockets(messageId) ==
    [status |-> 200,
     body |-> [success |-> TRUE,
               message |-> SentPrefix
                               \o NumToString(Cardinality({s \in Sockets : IsOpen(s)}))
                               \o SentSuffix,
               clients |-> MapKeys(connectedClients),
               messageId |-> messageId]]

ResponsePending(messageId) == NoResponse

\* Lines 133-138 and 170-175.
SentResponse(messageId) ==
    [status |-> 200,
     body |-> [success |-> TRUE,
               message |-> SentPrefix \o NumToString(MapSize(connectedClients))
                               \o SentSuffix,
               clients |-> MapKeys(connectedClients),
               messageId |-> messageId]]

\* Date.now().toString(), lines 126 and 163.
MessageId == NumToString(now)

TriggerEvent(message) ==
    [ev |-> "triggerSign", data |-> [message |-> message, id |-> MessageId]]

PostMessageIfPresent(body) ==
    IF Truthy(body) /\ body.message.kind # "undefined"
    THEN body.message
    ELSE JStr(DefaultMessage)

\* Lines 113-116.
PostMessage(body) ==
    IF Truthy(body) /\ Truthy(body.message)
    THEN body.message
    ELSE JStr(DefaultMessage)

PostBroadcastNoTry(body) ==
    IF ToStringThrows(PostMessage(body))
    THEN last' = Ran("POST", 0, 0, body, [status |-> 500, body |-> Undefined], NoEvents)
    ELSE last' = Ran("POST", 0, 0, body, SentResponse(MessageId),
                     IoEmit(TriggerEvent(PostMessage(body))))

\* The try block of lines 118-138 with its catch of lines 139-142: the
\* template literal of line 119 converts the message to a string.
PostBroadcast(body) ==
    IF ToStringThrows(PostMessage(body))
    THEN last' = Ran("POST", 0, 0, body,
                     ServerErrorResponse(ToPrimitiveErrorText), NoEvents)
    ELSE last' = Ran("POST", 0, 0, body, SentResponse(MessageId),
                     IoEmit(TriggerEvent(PostMessage(body))))

\* POST /api/trigger-sign, lines 105-143.  body is req.body as express.json()
\* leaves it.
TriggerPost(body) ==
    /\ proc = "listening"
    /\ IF NoClients(connectedClients)
       THEN last' = Ran("POST", 0, 0, body, NoClientsResponse, NoEvents)
       ELSE PostBroadcast(body)
    /\ UNCHANGED << proc, now, connectedClients, sockets >>
    /\ UNCHANGED << agentVars, mcpVars >>

\* Line 155.
GetMessage == JStr(GetMessagePrefix \o ToISOString(now))

TriggerGetUsesRequest(body) ==
    /\ proc = "listening"
    /\ IF NoClients(connectedClients)
       THEN last' = Ran("GET", 0, 0, body, NoClientsResponse, NoEvents)
       ELSE last' = Ran("GET", 0, 0, body, SentResponse(MessageId),
                        IoEmit(TriggerEvent(IF Truthy(body) THEN body.message
                                                            ELSE GetMessage)))
    /\ UNCHANGED << proc, now, connectedClients, sockets >>
    /\ UNCHANGED << agentVars, mcpVars >>

\* GET /api/trigger-sign, lines 146-180.  body is what the request carries
\* (req.body, or req.query, which has the same shape); the handler reads
\* nothing of it.
TriggerGet(body) ==
    /\ proc = "listening"
    /\ IF NoClients(connectedClients)
       THEN last' = Ran("GET", 0, 0, body, NoClientsResponse, NoEvents)
       ELSE last' = Ran("GET", 0, 0, body, SentResponse(MessageId),
                        IoEmit(TriggerEvent(GetMessage)))
    /\ UNCHANGED << proc, now, connectedClients, sockets >>
    /\ UNCHANGED << agentVars, mcpVars >>

----------------------------------------------------------------------------
(* The inputs of the handlers.                                             *)

MsgSignXYZ == << "S", "i", "g", "n", " ", "X", "Y", "Z" >>

MsgLong ==
    << "0", "1", "2", "3", "4", "5", "6", "7", "8", "9", "0", "1", "2", "3",
       "4", "5", "6", "7", "8", "9", "0", "1", "2", "3", "4", "5", "6", "7",
       "8", "9", "0" >>

\* A message of exactly 30 characters.
Msg30 == SubSeq(MsgLong, 1, 30)

\* The values of the message field of a request body; Undefined: no field.
BodyMessages ==
    { Undefined, JStr(MsgSignXYZ), JStr(<< >>), JNum(7), JObj(FALSE) }

Body(message) == [kind |-> "object", val |-> TRUE, message |-> message]

\* req.body: an object, or undefined when the request carried no JSON.
Bodies == { Undefined } \cup { Body(v) : v \in BodyMessages }

\* What a GET request carries: nothing, or a message.
GetBodies == { Undefined, Body(JStr(MsgSignXYZ)) }

Report(account, message, signature) ==
    [kind |-> "object", val |-> TRUE, account |-> account, message |-> message,
     signature |-> signature]

Account == JStr(<< "0", "x", "a" >>)
Signature == JStr(<< "0", "x", "5" >>)

\* The payloads of a signMessageResult event.
SignResults ==
    { Undefined,
      Report(Account, JStr(MsgSignXYZ), Signature),
      Report(Account, JStr(Msg30), Signature),
      Report(Account, JStr(MsgLong), Signature),
      Report(Account, Undefined, Signature) }

ClientPayloads == { JStr(MsgSignXYZ) }

----------------------------------------------------------------------------

Next ==
    \/ \E ok \in BOOLEAN : Listen(ok)
    \/ Tick
    \/ \E s \in Sockets, id \in SocketIds, hs \in Handshakes : Connection(s, id, hs)
    \/ \E s \in Sockets : Disconnect(s)
    \/ \E s \in Sockets : SocketError(s)
    \/ \E s \in Sockets, data \in ClientPayloads : ClientMessage(s, data)
    \/ \E s \in Sockets, data \in SignResults : SignMessageResult(s, data)
    \/ Status
    \/ \E body \in Bodies : TriggerPost(body)
    \/ \E body \in GetBodies : TriggerGet(body)

Spec == Init /\ [][Next]_vars

----------------------------------------------------------------------------
(* The Browser Agent, src/frontend/src/App.jsx.                            *)

DefaultSignText ==
    << "P", "l", "e", "a", "s", "e", " ", "s", "i", "g", "n", " ", "t", "h",
       "i", "s", " ", "m", "e", "s", "s", "a", "g", "e", "." >>

\* The two hexadecimal digits of the UTF-8 code of a character.
HexOf(c) ==
    CASE c = " " -> << "2", "0" >> [] c = "." -> << "2", "e" >>
      [] c = "P" -> << "5", "0" >> [] c = "S" -> << "5", "3" >>
      [] c = "X" -> << "5", "8" >> [] c = "Y" -> << "5", "9" >>
      [] c = "Z" -> << "5", "a" >> [] c = "a" -> << "6", "1" >>
      [] c = "e" -> << "6", "5" >> [] c = "g" -> << "6", "7" >>
      [] c = "h" -> << "6", "8" >> [] c = "i" -> << "6", "9" >>
      [] c = "l" -> << "6", "c" >> [] c = "m" -> << "6", "d" >>
      [] c = "n" -> << "6", "e" >> [] c = "s" -> << "7", "3" >>
      [] OTHER -> << "7", "4" >>

\* web3.utils.utf8ToHex, line 101.
RECURSIVE Utf8ToHex(_)
Utf8ToHex(s) ==
    IF s = << >> THEN << "0", "x" >>
    ELSE Utf8ToHex(SubSeq(s, 1, Len(s) - 1)) \o HexOf(s[Len(s)])

\* The sockets that io() has not made yet.
Unmade(socks) == {s \in ClientSockets : socks[s].state = "none"}

\* The effect of lines 22-87 up to the first await of init, in the render
\* that sees r, with the sockets as the cleanup left them: setWeb3 with a new
\* instance, and, when the render sees no socket, io(), the four listeners,
\* connect() and setSocket.  The triggerSign listener calls the signMessage
\* of this render.
Effect(r, socks) ==
    IF ethereum.present
    THEN /\ inits' = Append(inits, "chain")
         /\ IF r.socket = 0
            THEN /\ Unmade(socks) # {}
                 /\ LET s == CHOOSE u \in Unmade(socks) :
                                 \A v \in Unmade(socks) : u <= v
                    IN /\ clientSockets' = [socks EXCEPT ![s] =
                              [state |-> "connecting", listeners |-> TRUE,
                               closure |-> r]]
                       /\ sock' = s
                       /\ latest' = [r EXCEPT !.web3 = Len(inits) + 1, !.socket = s]
            ELSE /\ clientSockets' = socks
                 /\ sock' = 0
                 /\ latest' = [r EXCEPT !.web3 = Len(inits) + 1]
    ELSE /\ inits' = inits
         /\ clientSockets' = socks
         /\ sock' = 0
         /\ latest' = r

\* The cleanup of lines 80-86: sock.disconnect() and sock.removeAllListeners().
Cleanup(socks) ==
    IF sock # 0
    THEN [socks EXCEPT ![sock] = [@ EXCEPT !.state = "closed", !.listeners = FALSE]]
    ELSE socks

\* The component mounts: the first render, then its effect.
Mount ==
    /\ component = "unmounted"
    /\ component' = "mounted"
    /\ rendered' = NoState
    /\ Effect(NoState, clientSockets)
    /\ did' = Did("mount", << >>, FALSE, NoRequest, << >>, NoReport)
    /\ UNCHANGED << serverVars, mcpVars, ethereum, signing >>

\* React renders the queued state updates; when socket, the dependency of
\* line 87, has changed it runs the cleanup of the last effect and then the
\* effect again.
Render ==
    /\ component = "mounted"
    /\ latest # rendered
    /\ rendered' = latest
    /\ IF latest.socket # rendered.socket
       THEN Effect(latest, Cleanup(clientSockets))
       ELSE UNCHANGED << latest, sock, inits, clientSockets >>
    /\ did' = Did("render", << >>, FALSE, NoRequest, << >>, NoReport)
    /\ UNCHANGED << serverVars, mcpVars, component, ethereum, signing >>

\* The component unmounts: the cleanup of the last effect.
Unmount ==
    /\ component = "mounted"
    /\ component' = "removed"
    /\ clientSockets' = Cleanup(clientSockets)
    /\ did' = Did("unmount", << >>, FALSE, NoRequest, << >>, NoReport)
    /\ UNCHANGED << serverVars, mcpVars, ethereum, rendered, latest, sock, inits, signing >>

\* The transport has connected socket s: the listener of lines 41-44 logs.
SocketConnected(s) ==
    /\ clientSockets[s].state = "connecting"
    /\ clientSockets' = [clientSockets EXCEPT ![s].state = "connected"]
    /\ did' = Did("connect", << >>, FALSE, NoRequest, << >>, NoReport)
    /\ UNCHANGED << serverVars, mcpVars, component, ethereum, rendered, latest, sock, inits,
                    signing >>

\* A state update of a component that is no longer mounted is dropped.
SetState(next) == IF component = "mounted" THEN next ELSE latest

\* getChainId has answered, lines 64-67 (the chain id is shown and not used).
InitChain(k) ==
    /\ k \in 1..Len(inits)
    /\ inits[k] = "chain"
    /\ inits' = [inits EXCEPT ![k] = IF ethereum.selected THEN "accounts" ELSE "done"]
    /\ did' = Did("chain", << >>, FALSE, NoRequest, << >>, NoReport)
    /\ UNCHANGED << serverVars, mcpVars, component, ethereum, rendered, latest, sock,
                    clientSockets, signing >>

\* requestAccounts has answered, lines 68-69: setAccount.
InitAccounts(k) ==
    /\ k \in 1..Len(inits)
    /\ inits[k] = "accounts"
    /\ inits' = [inits EXCEPT ![k] = "done"]
    /\ latest' = SetState([latest EXCEPT !.account = Account])
    /\ did' = Did("accounts", << >>, FALSE, NoRequest, << >>, NoReport)
    /\ UNCHANGED << serverVars, mcpVars, component, ethereum, rendered, sock, clientSockets,
                    signing >>

\* The "connect wallet" button, lines 89-95, once the wallet has answered.
ConnectWallet ==
    /\ component = "mounted"
    /\ ethereum.present
    /\ latest' = [latest EXCEPT !.account = Account]
    /\ did' = Did("connectWallet", << >>, FALSE, NoRequest, << >>, NoReport)
    /\ UNCHANGED << serverVars, mcpVars, component, ethereum, rendered, sock, inits,
                    clientSockets, signing >>

\* signMessage, lines 97-102, up to its await: c is the render whose
\* signMessage is called, so web3, account and socket are the ones c sees.
SignMessage(op, c, msg) ==
    IF c.web3 = 0 \/ c.account = JNull
    THEN /\ signing' = signing
         /\ did' = Did(op, msg, FALSE, NoRequest, << >>, NoReport)
    ELSE LET req == [msg |-> msg, hex |-> Utf8ToHex(msg), account |-> c.account,
                     socket |-> c.socket]
         IN /\ signing' = Append(signing, req)
            /\ did' = Did(op, msg, TRUE, req, << >>, NoReport)

\* The parameter default of line 97.
MsgOrDefault(message) ==
    IF message.kind = "undefined" THEN DefaultSignText ELSE message.val

\* A triggerSign event arrives on socket s, lines 54-57.
TriggerSign(s, data) ==
    /\ clientSockets[s].state = "connected"
    /\ clientSockets[s].listeners
    /\ Len(signing) < MaxSigning
    /\ SignMessage("triggerSign", clientSockets[s].closure, MsgOrDefault(data.message))
    /\ UNCHANGED << serverVars, mcpVars, component, ethereum, rendered, latest, sock, inits,
                    clientSockets >>

\* The "sign" button: signMessage() of the current render.
ClickSign ==
    /\ component = "mounted"
    /\ Len(signing) < MaxSigning
    /\ SignMessage("click", rendered, MsgOrDefault(Undefined))
    /\ UNCHANGED << serverVars, mcpVars, component, ethereum, rendered, latest, sock, inits,
                    clientSockets >>

Remove(seq, i) == SubSeq(seq, 1, i - 1) \o SubSeq(seq, i + 1, Len(seq))

WalletRejectsButReports(i) ==
    /\ i \in 1..Len(signing)
    /\ signing' = Remove(signing, i)
    /\ did' = Did("rejected", signing[i].msg, FALSE, signing[i], << >>,
                  Report(signing[i].account, JStr(signing[i].msg), Undefined))
    /\ UNCHANGED << serverVars, mcpVars, component, ethereum, rendered, latest, sock, inits,
                    clientSockets >>

\* personal.sign rejects, lines 110-112: the error goes to the status log.
WalletRejects(i) ==
    /\ i \in 1..Len(signing)
    /\ signing' = Remove(signing, i)
    /\ did' = Did("rejected", signing[i].msg, FALSE, signing[i], << >>, NoReport)
    /\ UNCHANGED << serverVars, mcpVars, component, ethereum, rendered, latest, sock, inits,
                    clientSockets >>

\* personal.sign returns a signature, lines 102-109: socket?.emit.
WalletSigns(i, signature) ==
    /\ i \in 1..Len(signing)
    /\ signing' = Remove(signing, i)
    /\ did' = Did("signed", signing[i].msg, FALSE, signing[i], signature,
                  IF signing[i].socket # 0
                  THEN Report(signing[i].account, JStr(signing[i].msg), JStr(signature))
                  ELSE NoReport)
    /\ UNCHANGED << serverVars, mcpVars, component, ethereum, rendered, latest, sock, inits,
                    clientSockets >>

\* What the wallet may return.
Signatures == { << "0", "x", "5" >>, << "0", "x", "6" >> }

\* The payloads of a triggerSign event.
TriggerData == { [message |-> JStr(MsgSignXYZ), id |-> << "1" >>],
                 [message |-> Undefined, id |-> << "1" >>] }

AgentInit ==
    /\ ServerStart
    /\ ethereum \in { [present |-> TRUE, selected |-> TRUE],
                      [present |-> TRUE, selected |-> FALSE],
                      [present |-> FALSE, selected |-> FALSE] }
    /\ NotMounted
    /\ NoCalls

AgentNext ==
    \/ Mount
    \/ Render
    \/ Unmount
    \/ \E s \in ClientSockets : SocketConnected(s)
    \/ \E k \in 1..Len(inits) : InitChain(k)
    \/ \E k \in 1..Len(inits) : InitAccounts(k)
    \/ ConnectWallet
    \/ \E s \in ClientSockets, data \in TriggerData : TriggerSign(s, data)
    \/ ClickSign
    \/ \E i \in 1..MaxSigning, signature \in Signatures : WalletSigns(i, signature)
    \/ \E i \in 1..MaxSigning : WalletRejects(i)

AgentSpec == AgentInit /\ [][AgentNext]_vars

----------------------------------------------------------------------------
(* The MCP server, src/mcp/src/index.ts.                                   *)

AddressNotFoundText ==
    << "A", "d", "d", "r", "e", "s", "s", " ", "n", "o", "t", " ", "f",
       "o", "u", "n", "d" >>

NoPortfolioText ==
    << "C", "a", "n", "n", "o", "t", " ", "f", "e", "t", "c", "h", " ",
       "p", "o", "r", "t", "f", "o", "l", "i", "o", " ", "d", "a", "t",
       "a" >>

NoTokenInfoText ==
    << "C", "a", "n", "n", "o", "t", " ", "f", "e", "t", "c", "h", " ",
       "t", "o", "k", "e", "n", " ", "i", "n", "f", "o" >>

NoQuoteText ==
    << "C", "a", "n", "n", "o", "t", " ", "f", "e", "t", "c", "h", " ",
       "s", "w", "a", "p", " ", "q", "u", "o", "t", "e" >>

NullText == << "n", "u", "l", "l" >>

\* The functions that await axios.get inside try/catch, lines 16-159.
Wrappers ==
    { "getPortfolioData", "getWhitelistedTokenList", "getTokenInfo",
      "getTokenAllowance", "genApproveTokenTxData", "genSwapTxData" }

\* The functions that await a remote call without try/catch, lines 10-14 and
\* 162-209.
Unguarded == { "getEnsAddress", "getSwapQuote", "getCrosschainSwapQuote" }

\* The tools registered with server.tool, lines 221-337.
Tools ==
    { "resolveEnsDomain", "getPortfolioData", "getTokenInfo", "getSwapQuote",
      "getCrosschainSwapQuote" }

\* The function that the handler of a tool awaits.
ToolFunction(tool) == IF tool = "resolveEnsDomain" THEN "getEnsAddress" ELSE tool

JBigInt(n) == [kind |-> "bigint", val |-> n]

\* A quote of the SDK: an object with a bigint in it.
SwapQuote == [kind |-> "object", val |-> TRUE, toTokenAmount |-> JBigInt(7)]

\* The error that a failed remote call rejects with.
RemoteError == [kind |-> "error", val |-> << "E", "4", "2", "9" >>]

\* How a remote call may end for fn: fulfilled with a value (response.data of
\* axios, the address or null of resolveName, the quote of getQuote) or
\* rejected with an error.
RemoteOutcomes(fn) ==
    { [ok |-> FALSE, value |-> RemoteError] }
        \cup { [ok |-> TRUE, value |-> v] :
                 v \in IF fn \in Wrappers THEN { JStr(<< >>), JObj(TRUE), Undefined }
                       ELSE IF fn = "getEnsAddress" THEN { Account, JNull }
                       ELSE { SwapQuote } }

\* JSON.stringify(v), or with the replacer of lines 295-297 and 324-326 that
\* turns a bigint into a string: the text, undefined for undefined, or a
\* TypeError for a bigint that no replacer turns into a string.
Stringify(v, bigintToString) ==
    CASE v.kind = "undefined" -> [throws |-> FALSE, value |-> Undefined]
      [] v.kind = "null" -> [throws |-> FALSE, value |-> JStr(NullText)]
      [] v.kind = "string" -> [throws |-> FALSE, value |-> JStr(Quote \o v.val \o Quote)]
      [] v.kind = "number" -> [throws |-> FALSE, value |-> JStr(NumToString(v.val))]
      [] v.kind = "bigint" ->
             IF bigintToString
             THEN [throws |-> FALSE, value |-> JStr(Quote \o NumToString(v.val) \o Quote)]
             ELSE [throws |-> TRUE, value |-> Undefined]
      [] v.kind = "error" ->
             [throws |-> FALSE,
              value |-> JStr(<< "{", "\"", "m", "e", "s", "s", "a", "g", "e", "\"", ":" >>
                                 \o Quote \o v.val \o Quote \o << "}" >>)]
      [] "toTokenAmount" \in DOMAIN v ->
             IF bigintToString
             THEN [throws |-> FALSE,
                   value |-> JStr(<< "{", "\"", "t", "o", "T", "o", "k", "e", "n", "A",
                                     "m", "o", "u", "n", "t", "\"", ":" >>
                                      \o Quote \o NumToString(v.toTokenAmount.val)
                                      \o Quote \o << "}" >>)]
             ELSE [throws |-> TRUE, value |-> Undefined]
      [] OTHER -> [throws |-> FALSE, value |-> JStr(<< "{", "}" >>)]

Resolved(value) == [state |-> "resolved", value |-> value]

Rejected(error) == [state |-> "rejected", value |-> error]

CaughtRethrown(remote) ==
    IF remote.ok THEN Resolved(remote.value) ELSE Rejected(remote.value)

\* try { return (await axios.get(...)).data } catch (error) { return error }
Caught(remote) == Resolved(remote.value)

\* return await ...: a rejection of the remote call rejects the function.
Awaited(remote) ==
    IF remote.ok THEN Resolved(remote.value) ELSE Rejected(remote.value)

FunctionResult(fn, remote) ==
    IF fn \in Wrappers THEN Caught(remote) ELSE Awaited(remote)

\* { content: [{ type: "text", text: value || fallback }] }
TextAnswer(value, fallback) ==
    [state |-> "resolved",
     content |-> << [type |-> "text",
                     text |-> IF Truthy(value) THEN value.val ELSE fallback] >>]

\* The text of an answer: JSON.stringify of the result, and the TypeError it
\* raises rejects the handler.
JsonAnswer(value, bigintToString, fallback) ==
    IF Stringify(value, bigintToString).throws
    THEN [state |-> "rejected", value |-> [kind |-> "error", val |-> << "T" >>]]
    ELSE TextAnswer(Stringify(value, bigintToString).value, fallback)

\* The handler of a tool, lines 227-238, 248-259, 268-279, 292-307 and
\* 321-336, from the settlement of the function it awaits.
ToolAnswer(tool, result) ==
    IF result.state = "rejected" THEN [state |-> "rejected", value |-> result.value]
    ELSE CASE tool = "resolveEnsDomain" -> TextAnswer(result.value, AddressNotFoundText)
           [] tool = "getPortfolioData" -> JsonAnswer(result.value, FALSE, NoPortfolioText)
           [] tool = "getTokenInfo" -> JsonAnswer(result.value, FALSE, NoTokenInfoText)
           [] OTHER -> JsonAnswer(result.value, TRUE, NoQuoteText)

\* A function is called, by the handler of tool or, for "none", directly,
\* and runs up to its await.
Call(fn, tool) ==
    /\ Len(calls) < MaxCalls
    /\ tool # "none" => fn = ToolFunction(tool)
    /\ calls' = Append(calls, [fn |-> fn, tool |-> tool])
    /\ UNCHANGED << serverVars, agentVars, settled >>

\* The remote call of calls[i] ends: the function settles, and so does the
\* handler that awaits it.
Settle(i, remote) ==
    /\ i \in 1..Len(calls)
    /\ remote \in RemoteOutcomes(calls[i].fn)
    /\ calls' = Remove(calls, i)
    /\ settled' =
           [fn |-> calls[i].fn, tool |-> calls[i].tool, remote |-> remote,
            result |-> FunctionResult(calls[i].fn, remote),
            answer |-> IF calls[i].tool = "none" THEN NoSettlement
                       ELSE ToolAnswer(calls[i].tool,
                                       FunctionResult(calls[i].fn, remote))]
    /\ UNCHANGED << serverVars, agentVars >>

AllRemoteOutcomes == UNION { RemoteOutcomes(fn) : fn \in Wrappers \cup Unguarded }

McpNext ==
    \/ \E fn \in Wrappers \cup Unguarded, tool \in Tools \cup {"none"} : Call(fn, tool)
    \/ \E i \in 1..MaxCalls, remote \in AllRemoteOutcomes : Settle(i, remote)

McpSpec == Init /\ [][McpNext]_vars

----------------------------------------------------------------------------
(* POST /api/completion of the server variant src/unnamed/part_003.        *)

\* What the build does with the rejected promise of an async route handler;
\* the source names no version of Express or of Node.  Express 5 hands the
\* error to its error handler, which answers 500.  Express 4 drops the
\* promise: Node 15 and later end the process on the unhandled rejection,
\* older ones print a warning.
Builds == { "express5", "express4", "express4-warns" }

\* Whether req has a method json: the request of Express has none, so the
\* call of line 166 raises a TypeError.
ReqHasJson == FALSE

\* Whether streamText is bound: line 6 imports generateText and not
\* streamText, so line 183 raises a ReferenceError.
StreamTextBound == FALSE

\* The handler of lines 165-197: where it raises, and what it sends.  It
\* never calls a method of res: the Response objects of lines 193 and 195
\* are return values, which Express does not look at.
CompletionHandler(body) ==
    IF ~ReqHasJson THEN [raised |-> "outside try", sent |-> NoResponse]
    ELSE IF ~StreamTextBound THEN [raised |-> "inside try", sent |-> NoResponse]
    ELSE [raised |-> "nowhere", sent |-> NoResponse]

\* The page of Express's own error handler.
ExpressErrorResponse == [status |-> 500, body |-> Undefined]

\* POST /api/completion.
Completion(body, build) ==
    /\ proc = "listening"
    /\ LET h == CompletionHandler(body)
           uncaught == h.raised = "outside try"
       IN IF uncaught /\ build = "express5"
          THEN /\ proc' = proc
               /\ last' = Ran("completion", 0, 0, body,
                              [ExpressErrorResponse EXCEPT !.body =
                                   [raised |-> h.raised, by |-> "express"]],
                              NoEvents)
          ELSE /\ proc' = IF uncaught /\ build = "express4" THEN "crashed" ELSE proc
               /\ last' = Ran("completion", 0, 0, body,
                              [status |-> h.sent.status,
                               body |-> [raised |-> h.raised, by |-> "nobody"]],
                              NoEvents)
    /\ UNCHANGED << now, connectedClients, sockets >>
    /\ UNCHANGED << agentVars, mcpVars >>

\* The bodies of a completion request.
CompletionBodies ==
    { Undefined, [kind |-> "object", val |-> TRUE, prompt |-> JStr(MsgSignXYZ)] }

\* The variant has the connection handling and the status route of the relay
\* server unchanged.
CompletionNext ==
    \/ \E ok \in BOOLEAN : Listen(ok)
    \/ Tick
    \/ \E s \in Sockets, id \in SocketIds, hs \in Handshakes : Connection(s, id, hs)
    \/ \E s \in Sockets : Disconnect(s)
    \/ \E s \in Sockets : SocketError(s)
    \/ \E s \in Sockets, data \in ClientPayloads : ClientMessage(s, data)
    \/ Status
    \/ \E body \in CompletionBodies, build \in Builds : Completion(body, build)

CompletionSpec == Init /\ [][CompletionNext]_vars

----------------------------------------------------------------------------
(* Properties of the relay server.                                         *)

IsTrigger(r) == r.op \in {"POST", "GET"}

\* Whether r is the run of a disconnect or error listener of lines 50-61.
IsRemoval(r) ==
    /\ r.op \in {"disconnect", "error"}
    /\ sockets[r.sock].listeners

UniqueKeys(m) == \A i, j \in 1..Len(m) : m[i].key = m[j].key => i = j

\* The sockets whose connection event registered them and that are still open.
RegisteredSessions == {s \in Sockets : IsOpen(s) /\ sockets[s].listeners}

OpenSessions == {s \in Sockets : IsOpen(s)}

\* No disconnect and no error event has happened so far.
NoRemovalYet == \A s \in Sockets : sockets[s].state # "closed" /\ ~sockets[s].errored

NoErrorYet == \A s \in Sockets : ~sockets[s].errored

\* C1: the registry holds at most one record per id, and a connection event
\* for an id that is already registered leaves the registry, and so the
\* existing record, exactly as it was.
C1_OneRecordPerId ==
    /\ UniqueKeys(connectedClients)
    /\ (last.op = "connection" /\ MapHas(last.pre, last.id))
           => connectedClients = last.pre

\* A duplicate connection whose handshake differs from the registered record.
C1_Witness ==
    /\ last.op = "connection"
    /\ MapHas(last.pre, last.id)
    /\ MapGet(last.pre, last.id).ip # last.req.address
    /\ MapGet(last.pre, last.id).connectedAt # now

\* C2: as long as no disconnect or error event happened, the size of the
\* registry is the number of distinct ids that connected; a connection event
\* for a registered id leaves the size unchanged.
C2_SizeCountsDistinctIds ==
    /\ NoRemovalYet =>
           MapSize(connectedClients) = Cardinality({sockets[s].id : s \in OpenSessions})
    /\ (last.op = "connection" /\ MapHas(last.pre, last.id))
           => MapSize(connectedClients) = MapSize(last.pre)

C2_Witness ==
    /\ NoRemovalYet
    /\ last.op = "connection"
    /\ MapSize(connectedClients) = 2

\* What C3 expects of a status response, for a set of sessions.
StatusReports(sessions) ==
    /\ last.res.status = 200
    /\ last.res.body.status = OnlineText
    /\ last.res.body.connectedClients = Cardinality(sessions)
    /\ Len(last.res.body.clients) = Cardinality(sessions)
    /\ \A s \in sessions :
           Cardinality({i \in 1..Len(last.res.body.clients) :
                           last.res.body.clients[i].id = sockets[s].id}) = 1
    /\ \A i \in 1..Len(last.res.body.clients) :
           /\ \E s \in sessions : sockets[s].id = last.res.body.clients[i].id
           /\ last.res.body.clients[i].connectedSince
                  = MapGet(connectedClients, last.res.body.clients[i].id).connectedAt

RaisesInTrigger(r) ==
    /\ r.op = "POST"
    /\ Truthy(r.req)
    /\ r.req.message.kind = "object"
    /\ ~r.req.message.val

\* Every connection registered before the call received exactly one
\* triggerSign event, and all events of the call are one and the same.
FannedOut ==
    /\ \A i \in 1..Len(last.pre) :
           /\ \E s \in RegisteredSessions : sockets[s].id = last.pre[i].key
           /\ \A s \in OpenSessions :
                  sockets[s].id = last.pre[i].key
                      => /\ Len(last.emitted[s]) = 1
                         /\ last.emitted[s][1].ev = "triggerSign"
    /\ \A s, t \in Sockets :
           (last.emitted[s] # << >> /\ last.emitted[t] # << >>)
               => last.emitted[s] = last.emitted[t]

\* C4 as stated: a trigger call with k >= 1 registered connections responds
\* 200 with k clients and reaches every registered connection once.
C4_TriggerAlwaysSent ==
    (IsTrigger(last) /\ MapSize(last.pre) >= 1)
        => /\ last.res.status = 200
           /\ Len(last.res.body.clients) = MapSize(last.pre)
           /\ FannedOut

\* C4, amended: a trigger call with k >= 1 registered connections responds
\* 200 with k clients and reaches every registered connection exactly once
\* with the same message, unless the conversion of the request's message to
\* a string raises: then it responds 500 and emits nothing.
C4_TriggerSentUnlessRaised ==
    (IsTrigger(last) /\ MapSize(last.pre) >= 1)
        => IF RaisesInTrigger(last)
           THEN last.res.status = 500 /\ last.emitted = NoEvents
           ELSE /\ last.res.status = 200
                /\ Len(last.res.body.clients) = MapSize(last.pre)
                /\ FannedOut

C4_Witness ==
    /\ IsTrigger(last)
    /\ MapSize(last.pre) = 2
    /\ last.res.status = 200
    /\ \A s \in Sockets : Len(last.emitted[s]) = 1

\* C5: a trigger call on an empty registry responds 404 "No clients
\* connected" for every request body and emits nothing.
C5_EmptyRegistryIs404 ==
    (IsTrigger(last) /\ MapSize(last.pre) = 0)
        => /\ last.res.status = 404
           /\ last.res.body = [success |-> FALSE, message |-> NoClientsText]
           /\ last.emitted = NoEvents

\* An empty registry with a socket still open, and the body that raises
\* when the registry is not empty.
C5_Witness ==
    /\ RaisesInTrigger(last)
    /\ MapSize(last.pre) = 0
    /\ OpenSessions # {}
    /\ last.res.status = 404

\* The message of every triggerSign event of the last handler is v.
BroadcastMessageIs(v) ==
    \A s \in Sockets : \A i \in 1..Len(last.emitted[s]) :
        last.emitted[s][i].data.message = v

C7_RemovedAfterDisconnectOrError ==
    /\ IsRemoval(last)
           => /\ ~MapHas(connectedClients, last.id)
              /\ \A i \in 1..Len(connectedClients) :
                     ClientList(connectedClients)[i].id # last.id
              /\ proc = "listening"
    /\ (last.op \in {"disconnect", "error"} /\ ~MapHas(last.pre, last.id))
           => connectedClients = last.pre /\ proc = "listening"

C7_Witness ==
    /\ IsRemoval(last)
    /\ MapHas(last.pre, last.id)
    /\ MapSize(last.pre) = 2
    /\ MapSize(connectedClients) = 1

\* C8: a removal event that follows a removal event for the same id leaves
\* the registry as the first one left it, with the id absent and the process
\* running; every removal event leaves exactly the records of the other ids.
C8_RemovalIdempotent ==
    [][ /\ (IsRemoval(last) /\ IsRemoval(last') /\ last'.id = last.id)
            => /\ connectedClients' = connectedClients
               /\ ~MapHas(connectedClients', last.id)
               /\ proc' = "listening"
        /\ IsRemoval(last')
            => connectedClients' = SelectSeq(last'.pre, LAMBDA e : e.key # last'.id)
      ]_vars

\* The disconnect of a socket after its error event, with another record
\* in the registry.
C8_Witness ==
    /\ last.op = "disconnect"
    /\ sockets[last.sock].listeners
    /\ sockets[last.sock].errored
    /\ ~MapHas(last.pre, last.id)
    /\ MapSize(connectedClients) = 1

\* C9: once listening the process is never terminated; it exits only on a
\* failure of listen at startup.
C9_NeverTerminated ==
    \/ proc \in {"starting", "listening"}
    \/ proc = "exited" /\ last.op = "listen"

\* C10: an exception raised while the trigger message is built is answered
\* with 500 "Server error" and its description, the process keeps running
\* and the registry is as it was before the call.
C10_ExceptionIs500 ==
    (IsTrigger(last) /\ (RaisesInTrigger(last) \/ last.res.status = 500)
                     /\ MapSize(last.pre) >= 1)
        => /\ last.res.status = 500
           /\ last.res.body = [success |-> FALSE, message |-> ServerErrorText,
                               error |-> ToPrimitiveErrorText]
           /\ proc = "listening"
           /\ connectedClients = last.pre

C10_Witness ==
    /\ last.op = "POST"
    /\ RaisesInTrigger(last)
    /\ MapSize(last.pre) = 2
    /\ last.res.status = 500


\* The events the last handler emitted, over all sockets.
EmittedEvents ==
    UNION {{last.emitted[s][i] : i \in 1..Len(last.emitted[s])} : s \in Sockets}

\* C11: in every 200 response of a trigger call the count in the message is
\* the length of the clients array and the size of the registry at the
\* broadcast, the clients array lists exactly the registered ids, and
\* messageId is the id of the Trigger Message the call broadcast.
C11_ResponseMatchesBroadcast ==
    (IsTrigger(last) /\ last.res.status = 200)
        => /\ last.res.body.success
           /\ last.res.body.message
                  = SentPrefix \o NumToString(Len(last.res.body.clients)) \o SentSuffix
           /\ Len(last.res.body.clients) = MapSize(last.pre)
           /\ last.res.body.clients = [i \in 1..Len(last.pre) |-> last.pre[i].key]
           /\ EmittedEvents # {}
           /\ \A e \in EmittedEvents :
                  e.ev = "triggerSign" /\ e.data.id = last.res.body.messageId

\* A 200 response while a socket that is not registered is connected too.
C11_Witness ==
    /\ IsTrigger(last)
    /\ last.res.status = 200
    /\ MapSize(last.pre) = 1
    /\ Cardinality(OpenSessions) = 2

\* C12: a connection event whose id is already registered sends no welcome,
\* attaches no listener to the socket, answers nobody and leaves the
\* registry unchanged.
C12_DuplicateIsIgnored ==
    (last.op = "connection" /\ MapHas(last.pre, last.id))
        => /\ last.emitted = NoEvents
           /\ ~sockets[last.sock].listeners
           /\ last.res = [status |-> 0]
           /\ connectedClients = last.pre
           /\ proc = "listening"

C12_Witness ==
    /\ last.op = "connection"
    /\ MapHas(last.pre, last.id)
    /\ IsOpen(last.sock)
    /\ Cardinality(OpenSessions) = 2

\* C13: a connection event that registers a new id sends exactly one welcome
\* serverMessage, to its socket and to no other, and attaches the listeners
\* to that socket; a socket has the listeners only from its own registering
\* connection event.
C13_OneWelcomeToNewSession ==
    /\ (last.op = "connection" /\ ~MapHas(last.pre, last.id))
           => /\ last.emitted[last.sock]
                     = << [ev |-> "serverMessage", message |-> WelcomeText] >>
              /\ \A t \in Sockets : t # last.sock => last.emitted[t] = << >>
              /\ sockets[last.sock].listeners
              /\ MapHas(connectedClients, last.id)
    /\ \A s \in Sockets : sockets[s].state = "new" => ~sockets[s].listeners

C13_Witness ==
    /\ last.op = "connection"
    /\ ~MapHas(last.pre, last.id)
    /\ MapSize(last.pre) = 1
    /\ Cardinality(OpenSessions) = 2
    /\ Len(last.emitted[last.sock]) = 1

Digits == {"0", "1", "2", "3", "4", "5", "6", "7", "8", "9"}

\* C14: every Trigger Message that is broadcast is {message: string, id:
\* string}, whatever the request body.
C14_TriggerMessageShape ==
    \A e \in EmittedEvents :
        e.ev = "triggerSign"
            => /\ e.data.message.kind = "string"
               /\ e.data.id \in Seq(Digits)

\* The states of a connection whose connection event registered it.
Registered(s) == sockets[s].listeners /\ IsOpen(s) /\ ~sockets[s].errored
Terminal(s) ==
    sockets[s].listeners /\ (sockets[s].state = "closed" \/ sockets[s].errored)

\* C15: a connection is in the registry exactly while Registered; reaching
\* Disconnected or Errored removes it; after that no event of the session is
\* handled and no transition is taken; an id enters the registry only by a
\* connection event for it.
C15_Lifecycle ==
    [][ /\ \A s \in Sockets :
               (sockets'[s].listeners /\ sockets'[s].state = "open"
                    /\ ~sockets'[s].errored)
                   => MapHas(connectedClients', sockets'[s].id)
        /\ \A i \in 1..Len(connectedClients') :
               \E s \in Sockets :
                   /\ sockets'[s].listeners /\ sockets'[s].state = "open"
                   /\ ~sockets'[s].errored
                   /\ sockets'[s].id = connectedClients'[i].key
        /\ \A s \in Sockets :
               Terminal(s)
                   => /\ sockets'[s] = sockets[s]
                      /\ last' # last => last'.sock # s
        /\ \A id \in SocketIds :
               (~MapHas(connectedClients, id) /\ MapHas(connectedClients', id))
                   => last'.op = "connection" /\ last'.id = id
      ]_vars

\* C16: the status and trigger handlers, on every path, and the
\* clientMessage and signMessageResult listeners leave the registry as it
\* was: the same records with the same fields.
C16_OnlyConnectDisconnectErrorMutate ==
    last.op \in {"status", "POST", "GET", "clientMessage", "signMessageResult"}
        => connectedClients = last.pre

C16_Witness ==
    /\ last.op = "signMessageResult"
    /\ last.emitted[last.sock] # << >>
    /\ MapSize(connectedClients) = 2

\* C17: triggerSign events are emitted by a trigger handler alone, to
\* sockets connected when it runs, and its response lists the registry as it
\* is at the broadcast: a socket that connects later has received nothing and
\* is not in the clients array, and the registry does not change within the
\* call.
C17_FanOutFromOneState ==
    /\ \A e \in EmittedEvents : e.ev = "triggerSign" => IsTrigger(last)
    /\ IsTrigger(last)
           => /\ connectedClients = last.pre
              /\ \A s \in Sockets : last.emitted[s] # << >> => IsOpen(s)
              /\ last.res.status = 200
                     => /\ last.res.body.clients
                               = [i \in 1..Len(last.pre) |-> last.pre[i].key]
                        /\ \A s \in Sockets :
                               IsOpen(s) => Len(last.emitted[s]) = 1

\* A trigger answered while a socket has yet to connect.
C17_Witness ==
    /\ IsTrigger(last)
    /\ last.res.status = 200
    /\ \E s \in Sockets : sockets[s].state = "new" /\ last.emitted[s] = << >>
    /\ \E s \in Sockets : last.emitted[s] # << >>

\* C18: every session that receives the triggerSign event of a call has its
\* id in the registry at the broadcast and in the clients array.
C18_RecipientsAreRegistered ==
    (IsTrigger(last) /\ last.res.status = 200)
        => \A s \in Sockets :
               last.emitted[s] # << >>
                   => /\ MapHas(last.pre, sockets[s].id)
                      /\ \E i \in 1..Len(last.res.body.clients) :
                             last.res.body.clients[i] = sockets[s].id

\* C19: a signMessageResult is acknowledged only to a session whose id is in
\* the registry at that moment.
C19_AckOnlyToRegistered ==
    (last.op = "signMessageResult" /\ last.emitted[last.sock] # << >>)
        => MapHas(last.pre, last.id)

\* Whether data is a Signature Report with its string fields.
WellFormedReport(data) ==
    /\ data.kind = "object"
    /\ data.account.kind = "string"
    /\ data.message.kind = "string"
    /\ data.signature.kind = "string"

\* C20: a well-formed Signature Report is answered with exactly one
\* serverMessage, to the reporting session and to no other, and leaves
\* nothing behind in the server's state.
C20_OneAckToSender ==
    (last.op = "signMessageResult" /\ WellFormedReport(last.req))
        => /\ Len(last.emitted[last.sock]) = 1
           /\ last.emitted[last.sock][1].ev = "serverMessage"
           /\ SubSeq(last.emitted[last.sock][1].message, 1, Len(AckPrefix)) = AckPrefix
           /\ \A t \in Sockets : t # last.sock => last.emitted[t] = << >>
           /\ connectedClients = last.pre
           /\ proc = "listening"

C20_Witness ==
    /\ last.op = "signMessageResult"
    /\ WellFormedReport(last.req)
    /\ MapHas(last.pre, last.id)
    /\ Cardinality(OpenSessions) = 2
    /\ Len(last.emitted[last.sock]) = 1

\* C21: two distinct trigger calls that follow one another carry distinct
\* messageId tokens, whatever the time between them.
C21_TokensDistinct ==
    [][ ( /\ IsTrigger(last) /\ last.res.status = 200
          /\ IsTrigger(last') /\ last'.res.status = 200
          /\ last' # last )
            => last'.res.body.messageId # last.res.body.messageId
      ]_vars

\* C22: a record is what the connection event stored, the id, the address
\* and user agent of the handshake and the time of the event; no step changes
\* a record that exists before and after it; the status response reports
\* the record's connectedAt as connectedSince.
C22_RecordImmutable ==
    [][ /\ \A id \in SocketIds :
               (MapHas(connectedClients, id) /\ MapHas(connectedClients', id))
                   => MapGet(connectedClients', id) = MapGet(connectedClients, id)
        /\ \A id \in SocketIds :
               (~MapHas(connectedClients, id) /\ MapHas(connectedClients', id))
                   => /\ last'.op = "connection"
                      /\ MapGet(connectedClients', id)
                             = [id |-> id, ip |-> last'.req.address,
                                userAgent |-> last'.req.userAgent,
                                connectedAt |-> now]
        /\ (last' # last /\ last'.op = "status")
               => /\ Len(last'.res.body.clients) = Len(connectedClients)
                  /\ \A i \in 1..Len(connectedClients) :
                         /\ last'.res.body.clients[i].id = connectedClients[i].key
                         /\ last'.res.body.clients[i].connectedSince
                                = connectedClients[i].value.connectedAt
      ]_vars

\* A status taken later than the connect event, with events in between.
C22_Witness ==
    /\ last.op = "status"
    /\ \E i \in 1..Len(last.res.body.clients) :
           last.res.body.clients[i].connectedSince < now
    /\ \E s \in Sockets : sockets[s].errored \/ sockets[s].state = "closed"

\* C23: GET /api/trigger-sign with a registered connection answers 200 and
\* broadcasts, to every connected socket, the fixed prefix followed by the
\* ISO-8601 form of the current time, whatever the request carries.
C23_GetMessageIsGenerated ==
    [][ (last' # last /\ last'.op = "GET" /\ MapSize(connectedClients) >= 1)
            => /\ last'.res.status = 200
               /\ \A s \in Sockets :
                      last'.emitted[s] =
                          IF sockets[s].state = "open"
                          THEN << [ev |-> "triggerSign",
                                   data |-> [message |-> [kind |-> "string",
                                                          val |-> GetMessagePrefix
                                                                  \o ToISOString(now)],
                                             id |-> NumToString(now)]] >>
                          ELSE << >>
      ]_vars

\* A GET that carried a message of its own, one millisecond after startup.
C23_Witness ==
    /\ last.op = "GET"
    /\ last.res.status = 200
    /\ last.req.kind = "object"
    /\ last.res.body.messageId = << "1" >>
    /\ \E s \in Sockets : last.emitted[s] # << >>

NoConnectionYet == \A s \in Sockets : sockets[s].state = "new"

\* C24: before the first connection event the registry is empty, a status
\* response reports 0 clients and an empty list, and every trigger call is
\* answered 404 without a broadcast.
C24_EmptyAtStartup ==
    NoConnectionYet
        => /\ connectedClients = << >>
           /\ last.op = "status"
                  => /\ last.res.body.connectedClients = 0
                     /\ last.res.body.clients = << >>
           /\ IsTrigger(last)
                  => /\ last.res.status = 404
                     /\ last.emitted = NoEvents

C24_Witness ==
    /\ NoConnectionYet
    /\ IsTrigger(last)
    /\ last.res.status = 404

\* C25: the run of a trigger handler ends with its response, 200, 404 or
\* 500: a 200 goes with one event to each connected socket, sent once, and
\* the other two with no event; no event of a client lies between the
\* broadcast and the response.
C25_FireAndForget ==
    IsTrigger(last)
        => /\ last.res.status \in {200, 404, 500}
           /\ last.res.status = 200
                  => \A s \in Sockets :
                         Len(last.emitted[s]) = IF IsOpen(s) THEN 1 ELSE 0
           /\ last.res.status # 200 => last.emitted = NoEvents
           /\ connectedClients = last.pre

\* A 200 while no recipient has reported anything.
C25_Witness ==
    /\ IsTrigger(last)
    /\ last.res.status = 200
    /\ Cardinality(OpenSessions) = 2

C30_AckQuotesThirtyCharacters ==
    (last.op = "signMessageResult" /\ last.req.kind = "object"
         /\ last.req.message.kind = "string")
        => /\ Len(last.emitted[last.sock]) = 1
           /\ last.emitted[last.sock][1].message =
                  IF Len(last.req.message.val) > 30
                  THEN AckPrefix \o SubSeq(last.req.message.val, 1, 30)
                           \o << ".", ".", "." >> \o << "\"" >>
                  ELSE AckPrefix \o last.req.message.val \o << "\"" >>

\* A message one character longer than the limit.
C30_Witness ==
    /\ last.op = "signMessageResult"
    /\ last.req.kind = "object"
    /\ last.req.message.kind = "string"
    /\ Len(last.req.message.val) = 31
    /\ Len(last.emitted[last.sock]) = 1

----------------------------------------------------------------------------
(* Properties of the Browser Agent.                                        *)

\* The sockets that the component has not disconnected.
LiveClientSockets ==
    {s \in ClientSockets : clientSockets[s].state \in {"connecting", "connected"}}

\* C27: while the component is mounted with a wallet present it has made
\* exactly one socket, and that socket is not disconnected and carries its
\* listeners.
C27_OneOpenConnection ==
    (component = "mounted" /\ ethereum.present)
        => /\ Cardinality(ClientSockets \ Unmade(clientSockets)) = 1
           /\ \A s \in ClientSockets \ Unmade(clientSockets) :
                  s \in LiveClientSockets /\ clientSockets[s].listeners

\* Whether web3, account and socket had all been set when the last step ran.
Initialised == did.at.web3 # 0 /\ did.at.account # JNull /\ did.at.socket # 0

\* C28: a triggerSign event that arrives after web3, account and socket have
\* been set calls the wallet with the event's message, for the account and
\* with the socket that are set at that moment.
C28_TriggerIsSigned ==
    (did.op = "triggerSign" /\ Initialised)
        => /\ did.requested
           /\ did.req = [msg |-> did.msg, hex |-> Utf8ToHex(did.msg),
                         account |-> did.at.account, socket |-> did.at.socket]

\* C29: a signMessageResult is emitted by the step in which the wallet
\* returned a signature, and it carries the account and the message that
\* were given to the wallet (the message as text, the wallet got its
\* hexadecimal form) and the signature the wallet returned; a step in which the wallet
\* rejected, or in which signMessage found no wallet or account, emits
\* nothing and changes neither the component's state nor its sockets.
C29_ReportOnlyAfterSignature ==
    [][ did' # did
            => /\ did'.report # NoReport
                      => /\ did'.op = "signed"
                         /\ did'.req \in {signing[i] : i \in 1..Len(signing)}
                         /\ did'.report.account = did'.req.account
                         /\ did'.report.message.kind = "string"
                         /\ Utf8ToHex(did'.report.message.val) = did'.req.hex
                         /\ did'.report.signature.kind = "string"
                         /\ did'.report.signature.val = did'.returned
               /\ (did'.op = "rejected"
                       \/ (did'.op \in {"triggerSign", "click"} /\ ~did'.requested))
                      => /\ did'.report = NoReport
                         /\ UNCHANGED << rendered, latest, clientSockets, component >>
               /\ did'.op \in {"triggerSign", "click"} => did'.report = NoReport
      ]_vars

\* The wallet signed the default text for the account, and the report went
\* out on the socket of the component's state.
C29_Witness ==
    /\ did.op = "signed"
    /\ did.report # NoReport
    /\ did.report.account = Account
    /\ did.report.message.val = DefaultSignText
    /\ did.req.socket # 0

----------------------------------------------------------------------------
(* Properties of the MCP server.                                           *)

\* C31: a function that wraps axios.get never rejects: it resolves with the
\* response data, or with the error of a failed call; the getPortfolioData
\* and getTokenInfo tools then answer with one text item, a non-empty
\* string; a failed remote call of getSwapQuote or getCrosschainSwapQuote
\* rejects the function and, with the same error, the handler of its tool.
C31_WrappersNeverReject ==
    /\ settled.fn \in { "getPortfolioData", "getWhitelistedTokenList", "getTokenInfo",
                        "getTokenAllowance", "genApproveTokenTxData", "genSwapTxData" }
           => /\ settled.result.state = "resolved"
              /\ settled.result.value = settled.remote.value
    /\ settled.tool \in { "getPortfolioData", "getTokenInfo" }
           => /\ settled.answer.state = "resolved"
              /\ Len(settled.answer.content) = 1
              /\ settled.answer.content[1].type = "text"
              /\ Len(settled.answer.content[1].text) > 0
    /\ (settled.fn \in { "getSwapQuote", "getCrosschainSwapQuote" } /\ ~settled.remote.ok)
           => /\ settled.result = [state |-> "rejected", value |-> settled.remote.value]
              /\ settled.tool # "none"
                     => settled.answer
                            = [state |-> "rejected", value |-> settled.remote.value]

\* The remote call of the getPortfolioData tool failed, and the tool answered.
C31_Witness ==
    /\ settled.tool = "getPortfolioData"
    /\ ~settled.remote.ok
    /\ settled.answer.state = "resolved"
    /\ Len(settled.answer.content) = 1

----------------------------------------------------------------------------
(* Properties of POST /api/completion.                                     *)

\* C32: every request to POST /api/completion is answered, with a 200 or a
\* 500, raises nothing outside the try/catch of its handler, and leaves the
\* server running.
C32_CompletionAnswered ==
    last.op = "completion"
        => /\ last.res.status \in {200, 500}
           /\ last.res.body.raised # "outside try"
           /\ proc = "listening"

====
